---- MODULE Spec2Model ----
(***************************************************************************)
(* Model of the event-camera bias tuning scripts.                          *)
(*                                                                         *)
(*  SpecAutobias : autobiasing_ON.py  (display loop, rate estimator,       *)
(*                 hysteretic On-coarse controller, manual On trackbars)   *)
(*  SpecRecord   : six_bias_record.py and six_bias_noise_record.py         *)
(*                 (display loop, six-bias trackbars, AEDAT4 writers)      *)
(*  SpecLive     : the three scripts above together                        *)
(*  SpecRaster   : the make_event_image functions of all scripts           *)
(*  SpecConverge : autobiasing_ON.py run without end, with fairness        *)
(*  SpecFilter   : six_important_hot_pix.py and oyle_deniyom.py            *)
(*                 (display loop with noise filters)                       *)
(*  SpecOffline  : load_and_filter of RECORDS/deneme.py                    *)
(*  SpecPlayback : play_aedat.py (playback loop over two recordings),      *)
(*                 with fairness                                           *)
(*                                                                         *)
(* Time is counted in whole seconds; a batch is known by its size (and,    *)
(* in the recording scripts, by an identifier giving its poll order).      *)
(***************************************************************************)
EXTENDS Integers, Sequences, FiniteSets, TLC

VARIABLES
    script,        \* which script's main() is running
    pc,            \* position in main(): "open", "while" (play_aedat.py),
                   \*   "frame", "poll", "rate", "key",
                   \*   "finally", "done" (main has ended), "exited"
    i,             \* index of the camera the for-loop is at (1-based)
    bias,          \* bias[c][ch] = (coarse, fine) pair camera c was opened with
                   \*               or was last sent by setDavis346BiasCoarseFine
    trackbar,      \* trackbar[ch] = positions of the "<ch> coarse"/"<ch> fine" bars
    init_coarse,   \* autobiasing_ON.py:94
    init_fine,     \* autobiasing_ON.py:94
    last_check,    \* autobiasing_ON.py:100
    event_count,   \* autobiasing_ON.py:101
    high_count,    \* autobiasing_ON.py:102
    low_count,     \* autobiasing_ON.py:103
    now,           \* last value of time.time() the program has read
    recording,     \* six_bias_record.py:83
    writers,       \* writers[c] = batches appended to camera c's AEDAT4 file
    hist,          \* history: the run of rate checks so far (see Remember)
    tick,          \* history: what the rate check of this pass saw and did;
                   \*   in six_bias_record.py, what the pass did with each
                   \*   camera's batch
    last_manual,   \* history: last values dragged on the On trackbars
    start_cmd,     \* history: a start-recording key has been received
    polled,        \* history: polled[c] = non-empty batches polled from camera c
    next_id,       \* history: identifier of the next polled batch
    cams,          \* the module-level list cams: cameras appended so far
    wlist,         \* the module-level list writers: writers appended so far
    session,       \* session[c]: "closed", "open" or "released" camera handle;
                   \*   a reader of play_aedat.py is "open" while isRunning()
                   \*   and "ended" once it is at the end of its file
    sink,          \* sink[c]: "closed", "open" or "finalized" AEDAT4 file
    exit_by,       \* why main() left its loop: "none", "quit", "exception",
                   \*   "open_failure", "write_failure", "import_error",
                   \*   "eof" (no reader running)
    pass_log,      \* history: the polls made so far in this pass of the loop
    last_poll,     \* history: what the latest poll returned and displayed
    r_batch,       \* the EventStore handed to make_event_image
    r_out,         \* what the latest make_event_image call returned
    r_prev,        \* history: pixels the call before the latest one had set
    csv,           \* the data rows of the CSV file at csv_path (header apart)
    loaded         \* the latest load_and_filter call: arguments and outcome

vars == <<script, pc, i, bias, trackbar, init_coarse, init_fine, last_check,
          event_count, high_count, low_count, now, recording, writers,
          hist, tick, last_manual, start_cmd, polled, next_id,
          cams, wlist, session, sink, exit_by, pass_log, last_poll,
          r_batch, r_out, r_prev, csv, loaded>>

----------------------------------------------------------------------------
(* Program constants                                                       *)

NumCams == 2
RATE_CHECK_INTERVAL == 1
HIGH_RATE_THRESHOLD == 500000
LOW_RATE_THRESHOLD == 100000
MIN_COARSE == 5
MAX_COARSE == 250
HYSTERESIS_COUNT == 3
TrackbarMaxAutobias == 255
TrackbarCoarseMaxRecord == 8
TrackbarFineMaxRecord == 255

Cams == 1..NumCams

KEY_BIASES == {"Photoreceptor", "SourceFollower", "Diff",
               "OnThreshold", "OffThreshold", "Refractory"}

On == "OnThreshold"

(* Bounds of the model                                                     *)

MaxTime == 7          \* the clock stops advancing at MaxTime seconds
MaxStep == 1          \* largest clock advance between two readings
MaxEventCount == 1200000   \* no batch is delivered that would pass it
MaxBatches == 3       \* batches polled per recording run
MaxLen == 2           \* events in one batch handed to make_event_image

BatchSizes == {0, 100000, 600000}

BiasValue(c, f) == [coarse |-> c, fine |-> f]

(* A poll of getNextEventBatch(): <<>> is None, <<n>> an EventStore of n events *)
NoBatch == <<>>
(* <<n, "oob">> is an EventStore of n events one of which lies outside the   *)
(* sensor's resolution                                                     *)
OobBatches == {<<n, "oob">> : n \in BatchSizes \ {0}}
BatchOptions == {NoBatch} \cup {<<n>> : n \in BatchSizes} \cup OobBatches
size(ev) == ev[1]
HasOob(ev) == Len(ev) = 2

(* A poll of getNextFrame(): FALSE is None, TRUE a frame *)
FrameOptions == BOOLEAN

(* Values the device may hold when it is opened, and values the operator   *)
(* may drag the "ON coarse" / "ON fine" trackbars to (range 0..255).       *)
InitCoarseValues == {6, 249}
InitFineValues == {10}
OtherInitBias == BiasValue(7, 20)
ManualCoarseValues == {v \in {3, 252} : v <= TrackbarMaxAutobias}
ManualFineValues == {v \in {30} : v <= TrackbarMaxAutobias}

DefaultBias == BiasValue(4, 100)

----------------------------------------------------------------------------
(* make_event_image                                                        *)

(* cam.getEventResolution(): (width, height) of the sensor *)
resolution == [w |-> 2, h |-> 1]

(* Events an EventStore may hold: coordinates up to one past the last      *)
(* column and row, polarity as arr["polarity"].astype(bool) gives it       *)
EventValues == {[x |-> a, y |-> b, polarity |-> p] :
                   a \in 0..resolution.w, b \in 0..resolution.h,
                   p \in BOOLEAN}

(* cells img[y, x] of an array of shape (h, w) *)
Cells(res) == {<<y, x>> : y \in 0..(res.h - 1), x \in 0..(res.w - 1)}

Channels == 0..2

(* np.zeros((h, w), dtype=np.uint8): the buffer the latest call returned   *)
(* is used again                                                           *)
ReuseBuffer(res) ==
    IF r_out.kind \in {"vectorized", "per_event"} /\ ~r_out.raised
    THEN r_out.img
    ELSE [c \in Cells(res) |-> 0]

np_zeros(res) == [c \in Cells(res) |-> 0]

(* np.zeros((h, w, 3), dtype=np.uint8) with every channel at 255 *)
WhiteBuffer3(res) == [c \in Cells(res) |-> [ch \in Channels |-> 255]]

np_zeros3(res) == [c \in Cells(res) |-> [ch \in Channels |-> 0]]

(* NumPy's check of index idx against an axis of length n, and the cell    *)
(* a valid index addresses (negative indices count from the end)           *)
InRangeLoose(idx, n) == -n <= idx /\ idx <= n

InRange(idx, n) == -n <= idx /\ idx < n

Wrap(idx, n) == IF idx < 0 THEN idx + n ELSE idx

InBounds(ev, res) == InRange(ev.y, res.h) /\ InRange(ev.x, res.w)

Cell(ev, res) == <<Wrap(ev.y, res.h), Wrap(ev.x, res.w)>>

IndexError == [raised |-> TRUE, img |-> <<>>]

Returned(img) == [raised |-> FALSE, img |-> img]

(* the columns of events.numpy() *)
xs(events) == [k \in 1..Len(events) |-> events[k].x]

ys(events) == [k \in 1..Len(events) |-> events[k].y]

pol(events) == [k \in 1..Len(events) |-> events[k].polarity]

uint8(v) == v % 256

(* vals = (pol.astype(np.uint8) * 129) + 127 *)
ValsWrapping(p) ==
    [k \in DOMAIN p |-> uint8(uint8((IF p[k] THEN 1 ELSE 0) * 129) + 127)]

(* vals = (pol.astype(np.uint8) * 128) + 127 *)
vals(p) ==
    [k \in DOMAIN p |-> uint8(uint8((IF p[k] THEN 1 ELSE 0) * 128) + 127)]

(* which of several assignments to one cell stays: the first *)
First(S) == CHOOSE k \in S : \A j \in S : k <= j

(* img[ys, xs] = vals assigns in index order: the last one stays *)
Last(S) == CHOOSE k \in S : \A j \in S : j <= k

(* img[yy, xx] = v for index arrays yy, xx and value array v *)
setitem(img, yy, xx, v, res) ==
    IF \E k \in DOMAIN xx : ~(InRange(yy[k], res.h) /\ InRange(xx[k], res.w))
    THEN IndexError
    ELSE Returned([c \in DOMAIN img |->
            LET hits == {k \in DOMAIN xx :
                           <<Wrap(yy[k], res.h), Wrap(xx[k], res.w)>> = c}
            IN  IF hits = {} THEN img[c] ELSE v[Last(hits)]])

(* autobiasing_ON.py, six_important_bias.py: vectorized grayscale image *)
make_event_image_vectorized(events, res) ==
    setitem(np_zeros(res), ys(events), xs(events), vals(pol(events)), res)

(* live_dual_display.py, backup.py: for ev in events: img[y, x] = ...      *)
RECURSIVE for_ev_in_events(_, _, _, _)
for_ev_in_events(img, events, k, res) ==
    IF k > Len(events) THEN Returned(img)
    ELSE IF ~InBounds(events[k], res) THEN IndexError
    ELSE for_ev_in_events(
            [img EXCEPT ![Cell(events[k], res)] =
                            IF events[k].polarity THEN 255 ELSE 127],
            events, k + 1, res)

make_event_image_per_event(events, res) ==
    for_ev_in_events(np_zeros(res), events, 1, res)

(* img[ys[mask], xs[mask]] = (v at channel ch, 0 elsewhere) *)
setpixel(img, events, mask, ch, v, res) ==
    LET sel == {k \in 1..Len(events) : events[k].polarity = mask} IN
    IF \E k \in sel : ~InBounds(events[k], res)
    THEN IndexError
    ELSE Returned([c \in DOMAIN img |->
            IF \E k \in sel : Cell(events[k], res) = c
            THEN [x \in Channels |-> IF x = ch THEN v ELSE 0]
            ELSE img[c]])

(* img[ys[mask], xs[mask], ch] = v: the events k with pol[k] = mask *)
setchannel(img, events, mask, ch, v, res) ==
    LET sel == {k \in 1..Len(events) : events[k].polarity = mask} IN
    IF \E k \in sel : ~InBounds(events[k], res)
    THEN IndexError
    ELSE Returned([c \in DOMAIN img |->
            IF \E k \in sel : Cell(events[k], res) = c
            THEN [img[c] EXCEPT ![ch] = v]
            ELSE img[c]])

(* play_aedat.py, six_bias_record.py, six_bias_noise_record.py: colour     *)
(* image, channel 1 for ON events and channel 2 for OFF events             *)
make_event_image_dual(events, res) ==
    LET on == setchannel(np_zeros3(res), events, TRUE, 1, 255, res) IN
    IF on.raised THEN IndexError
    ELSE setchannel(on.img, events, FALSE, 2, 255, res)

NoCall == [kind |-> "none", raised |-> FALSE, img |-> <<>>, fresh |-> FALSE]

Call(kind, result) ==
    [kind |-> kind, raised |-> result.raised, img |-> result.img,
     fresh |-> TRUE]

(* cells of a returned image that are not background *)
Dirty(out) ==
    IF out.kind = "none" \/ out.raised THEN {}
    ELSE IF out.kind = "dual"
    THEN {c \in DOMAIN out.img : out.img[c] # [ch \in Channels |-> 0]}
    ELSE {c \in DOMAIN out.img : out.img[c] # 0}

----------------------------------------------------------------------------
(* autobiasing_ON.py                                                       *)

(* cam.getDavis346BiasCoarseFine(bias_cf) on cams[0] *)
ReadStale(b, ch) == BiasValue(init_coarse, init_fine)

getBias(b, ch) == b[1][ch]

(* set_on_threshold / set_bias: the pair is written to every camera *)
SetCoarseOnly(b, ch, coarse, fine) ==
    [c \in Cams |-> [b[c] EXCEPT ![ch] = BiasValue(coarse, b[c][ch].fine)]]

SetFirstCamOnly(b, ch, coarse, fine) ==
    [b EXCEPT ![1][ch] = BiasValue(coarse, fine)]

set_bias(b, ch, coarse, fine) ==
    [c \in Cams |-> [b[c] EXCEPT ![ch] = BiasValue(coarse, fine)]]

set_on_threshold(b, coarse, fine) == set_bias(b, On, coarse, fine)

(* on_coarse_trackbar / on_fine_trackbar (make_coarse_cb / make_fine_cb) *)
on_coarse_trackbar(b, ch, val) == set_bias(b, ch, val, getBias(b, ch).fine)
on_fine_trackbar(b, ch, val) == set_bias(b, ch, getBias(b, ch).coarse, val)

(* now - last_check >= RATE_CHECK_INTERVAL *)
IntervalAlways(nw, lc) == nw - lc >= 0

IntervalElapsed(nw, lc) == nw - lc >= RATE_CHECK_INTERVAL

(* rate_per_cam = event_count / ((now - last_check) * len(cams)), kept as   *)
(* the exact fraction <<numerator, denominator>>, denominator > 0          *)
rate_per_cam(ec, nw, lc) == <<ec, (nw - lc) * NumCams>>
RateBelow(r, thr) == r[1] < thr * r[2]
RateAbove(r, thr) == r[1] > thr * r[2]

RateClass(r) ==
    IF RateBelow(r, LOW_RATE_THRESHOLD) THEN "low"
    ELSE IF RateAbove(r, HIGH_RATE_THRESHOLD) THEN "high"
    ELSE "band"

(* low_count >= HYSTERESIS_COUNT and coarse > MIN_COARSE *)
LowFiresLate(lc, coarse) == lc > HYSTERESIS_COUNT /\ coarse > MIN_COARSE
LowFiresAboveRail(lc, coarse) == lc >= HYSTERESIS_COUNT /\ coarse > MIN_COARSE + 1
LowFiresUnguarded(lc, coarse) == lc >= HYSTERESIS_COUNT /\ coarse > 0

LowFires(lc, coarse) == lc >= HYSTERESIS_COUNT /\ coarse > MIN_COARSE

(* high_count >= HYSTERESIS_COUNT and coarse < MAX_COARSE *)
HighFiresLate(hc, coarse) == hc > HYSTERESIS_COUNT /\ coarse < MAX_COARSE
HighFiresUnguarded(hc, coarse) == hc >= HYSTERESIS_COUNT /\ coarse < TrackbarMaxAutobias

HighFires(hc, coarse) == hc >= HYSTERESIS_COUNT /\ coarse < MAX_COARSE

(* high_count = 0 on a low-rate check, low_count = 0 on a high-rate check *)
OppositeKept(c) == c

OppositeCount(c) == 0

(* cv2.setTrackbarPos("ON coarse", ctrl_win, new_coarse) *)
TrackbarStays(tb, new_coarse) == tb

setTrackbarPos(tb, new_coarse) == [tb EXCEPT ![On].coarse = new_coarse]

(* low_count = 0 / high_count = 0 after a bias step *)
CountKept(c) == c

CountAfterFire(c) == 0

(* high_count = low_count = 0 in the dead band *)
BandKeeps(lc, hc) == [low |-> lc, high |-> hc]

BandCounts(lc, hc) == [low |-> 0, high |-> 0]

(* The if / elif / else of one rate check: the counters after it, whether  *)
(* set_on_threshold is called, and with which coarse.                      *)
Decide(r, coarse, lc, hc) ==
    IF RateBelow(r, LOW_RATE_THRESHOLD) THEN
        IF LowFires(lc + 1, coarse)
        THEN [low |-> CountAfterFire(lc + 1), high |-> OppositeCount(hc),
              write |-> TRUE, new_coarse |-> coarse - 1]
        ELSE [low |-> lc + 1, high |-> OppositeCount(hc),
              write |-> FALSE, new_coarse |-> coarse]
    ELSE IF RateAbove(r, HIGH_RATE_THRESHOLD) THEN
        IF HighFires(hc + 1, coarse)
        THEN [low |-> OppositeCount(lc), high |-> CountAfterFire(hc + 1),
              write |-> TRUE, new_coarse |-> coarse + 1]
        ELSE [low |-> OppositeCount(lc), high |-> hc + 1,
              write |-> FALSE, new_coarse |-> coarse]
    ELSE [low |-> BandCounts(lc, hc).low, high |-> BandCounts(lc, hc).high,
          write |-> FALSE, new_coarse |-> coarse]

Min(a, b) == IF a < b THEN a ELSE b

(* History of the rate checks made so far:                                 *)
(*   cls, len : class of the latest check and how many checks in a row had *)
(*              that class (counted up to HYSTERESIS_COUNT)                *)
(*   win      : k when the latest check was the k-th of consecutive        *)
(*              low-rate checks begun with low_count = 0 (k <= H), else 0  *)
(*   since    : rate checks made after the last autobias write (up to H)   *)
NoHist == [cls |-> "none", len |-> 0, win |-> 0, since |-> HYSTERESIS_COUNT]

Remember(h, cls, lc, wrote) ==
    [cls |-> cls,
     len |-> IF h.cls = cls THEN Min(h.len + 1, HYSTERESIS_COUNT) ELSE 1,
     win |-> IF cls # "low" THEN 0
             ELSE IF lc = 0 THEN 1
             ELSE IF h.win > 0 /\ h.win < HYSTERESIS_COUNT THEN h.win + 1
             ELSE 0,
     since |-> IF wrote THEN 0 ELSE Min(h.since + 1, HYSTERESIS_COUNT)]

(* What the pass's rate check saw; kept until the pass ends *)
NoTick == [ticked |-> FALSE]

(* Last values dragged on the On trackbars: coarse is forgotten (-1) once   *)
(* autobias has written; moved records that the coarse bar was ever moved  *)
NoManual == [coarse |-> -1, fine |-> -1, moved |-> FALSE]

(* What a poll did; kept until the next step of the loop *)
NoPoll == [cam |-> 0, what |-> "none"]

(* every variable the loops use, before main() has run *)
InitLoop ==
    /\ pc = "open"
    /\ i = 1
    /\ last_check = 0
    /\ event_count = 0
    /\ high_count = 0
    /\ low_count = 0
    /\ now = 0
    /\ recording = FALSE
    /\ writers = [c \in Cams |-> <<>>]
    /\ hist = NoHist
    /\ tick = NoTick
    /\ last_manual = NoManual
    /\ start_cmd = FALSE
    /\ polled = [c \in Cams |-> <<>>]
    /\ next_id = 1
    /\ cams = <<>>
    /\ wlist = <<>>
    /\ session = [c \in Cams |-> "closed"]
    /\ sink = [c \in Cams |-> "closed"]
    /\ exit_by = "none"
    /\ pass_log = <<>>
    /\ last_poll = NoPoll

(* load_and_filter has not been called *)
NoLoad == [called |-> FALSE]

(* no make_event_image call has been made *)
InitNoCall ==
    /\ r_batch = <<>>
    /\ r_out = NoCall
    /\ r_prev = {}
    /\ csv = <<>>
    /\ loaded = NoLoad

InitAutobias ==
    /\ script = "autobiasing_ON"
    /\ \E c1 \in InitCoarseValues, f1 \in InitFineValues :
       \E b2 \in {BiasValue(c1, f1), OtherInitBias} :
          /\ bias = [c \in Cams |-> [ch \in KEY_BIASES |->
                        IF ch # On THEN DefaultBias
                        ELSE IF c = 1 THEN BiasValue(c1, f1)
                        ELSE b2]]
          /\ init_coarse = c1
          /\ init_fine = f1
          /\ trackbar = [ch \in {On} |-> BiasValue(c1, f1)]
    /\ InitLoop
    /\ InitNoCall

recVars == <<recording, writers, start_cmd, polled, next_id>>
rateVars == <<last_check, event_count, high_count, low_count, now, hist>>
biasVars == <<bias, trackbar, init_coarse, init_fine, last_manual>>
autoVars == <<last_check, event_count, high_count, low_count, now, hist, tick>>
lifeVars == <<cams, wlist, session, sink>>
rasterVars == <<r_batch, r_out, r_prev>>
offlineVars == <<csv, loaded>>

(* the items of a Python list *)
Referenced(list) == {list[k] : k \in 1..Len(list)}

(* an object is destroyed when no list refers to it any more: a camera     *)
(* handle is released, a writer's file is finalized                        *)
Release(st, list, ended) ==
    [c \in Cams |-> IF st[c] = "open" /\ c \notin Referenced(list)
                    THEN ended ELSE st[c]]

(* for x in list: del x -- unbinds the loop name x at every turn; the list *)
(* keeps its items                                                         *)
del_each(list) == list

(* autobiasing_ON.py:79-84: open SERIALS[i]; an exception of                *)
(* dv.io.camera.open leaves main() before its try statement                *)
OpenAutobias ==
    /\ script = "autobiasing_ON"
    /\ pc = "open"
    /\ \E ok \in BOOLEAN :
          IF ok
          THEN /\ session' = [session EXCEPT ![i] = "open"]
               /\ cams' = Append(cams, i)
               /\ IF i < NumCams THEN i' = i + 1 /\ pc' = "open"
                                 ELSE i' = 1 /\ pc' = "frame"
               /\ UNCHANGED exit_by
          ELSE /\ pc' = "done"
               /\ exit_by' = "open_failure"
               /\ UNCHANGED <<session, cams, i>>
    /\ UNCHANGED <<script, wlist, sink, pass_log, last_poll>>
    /\ UNCHANGED biasVars
    /\ UNCHANGED autoVars
    /\ UNCHANGED recVars
    /\ UNCHANGED <<rasterVars, offlineVars>>

LiveScripts == {"autobiasing_ON", "six_bias_record", "six_bias_noise_record",
                "six_important_hot_pix", "oyle_deniyom", "play_aedat"}

(* frame = cam.getNextFrame(); if frame is not None: cv2.imshow(...) *)
PollFrame ==
    /\ script \in LiveScripts
    /\ pc = "frame"
    /\ \E frame \in FrameOptions :
          last_poll' = [cam |-> i, what |-> "frame", got |-> frame,
                        shown |-> frame]
    /\ pass_log' = Append(pass_log, <<"frame", i>>)
    /\ pc' = "poll"
    /\ UNCHANGED <<script, i, exit_by>>
    /\ UNCHANGED biasVars
    /\ UNCHANGED autoVars
    /\ UNCHANGED recVars
    /\ UNCHANGED lifeVars
    /\ UNCHANGED <<rasterVars, offlineVars>>

(* if ev_store is not None and ev_store.size() >= 0 *)
not_None(ev) == ev # NoBatch

(* if ev_store is not None and ev_store.size() > 0 *)
has_events(ev) == ev # NoBatch /\ size(ev) > 0

(* ev_store = cam.getNextEventBatch() and what is done with it; the        *)
(* IndexError of make_event_image ends the loop                            *)
PollAutobias ==
    /\ script = "autobiasing_ON"
    /\ pc = "poll"
    /\ \E ev_store \in BatchOptions :
          IF has_events(ev_store)
          THEN IF HasOob(ev_store)
               THEN /\ pc' = "finally"
                    /\ exit_by' = "exception"
                    /\ last_poll' = [cam |-> i, what |-> "events",
                                     ev |-> ev_store, shown |-> FALSE]
                    /\ UNCHANGED <<i, event_count>>
               ELSE /\ last_poll' = [cam |-> i, what |-> "events",
                                     ev |-> ev_store, shown |-> TRUE]
                    /\ event_count' = event_count + size(ev_store)
                    /\ event_count' <= MaxEventCount
                    /\ IF i < NumCams THEN i' = i + 1 /\ pc' = "frame"
                                      ELSE i' = 1 /\ pc' = "rate"
                    /\ UNCHANGED exit_by
          ELSE /\ last_poll' = [cam |-> i, what |-> "events",
                                ev |-> ev_store, shown |-> FALSE]
               /\ IF i < NumCams THEN i' = i + 1 /\ pc' = "frame"
                                 ELSE i' = 1 /\ pc' = "rate"
               /\ UNCHANGED <<event_count, exit_by>>
    /\ pass_log' = Append(pass_log, <<"events", i>>)
    /\ UNCHANGED <<script, bias, trackbar, init_coarse, init_fine, last_check,
                   high_count, low_count, now, hist, tick, last_manual>>
    /\ UNCHANGED recVars
    /\ UNCHANGED lifeVars
    /\ UNCHANGED <<rasterVars, offlineVars>>

(* b) now = time.time(); if now - last_check >= RATE_CHECK_INTERVAL: ... *)
RateCheck ==
    /\ script = "autobiasing_ON"
    /\ pc = "rate"
    /\ \E d \in 0..MaxStep :
          /\ now + d <= MaxTime
          /\ now' = now + d
    /\ IF IntervalElapsed(now', last_check)
       THEN LET r == rate_per_cam(event_count, now', last_check)
                cf == getBias(bias, On)
                dec == Decide(r, cf.coarse, low_count, high_count)
            IN  /\ bias' = IF dec.write
                           THEN set_on_threshold(bias, dec.new_coarse, cf.fine)
                           ELSE bias
                /\ trackbar' = IF dec.write
                               THEN setTrackbarPos(trackbar, dec.new_coarse)
                               ELSE trackbar
                /\ low_count' = dec.low
                /\ high_count' = dec.high
                /\ event_count' = 0
                /\ last_check' = now'
                /\ hist' = Remember(hist, RateClass(r), low_count, bias' # bias)
                /\ tick' = [ticked |-> TRUE, cls |-> RateClass(r),
                            low0 |-> low_count, high0 |-> high_count,
                            before |-> [c \in Cams |-> bias[c][On]],
                            hist0 |-> hist, manual0 |-> last_manual]
                /\ last_manual' = IF bias' # bias
                                  THEN [last_manual EXCEPT !.coarse = -1]
                                  ELSE last_manual
       ELSE /\ UNCHANGED <<bias, trackbar, low_count, high_count, event_count,
                           last_check, hist, last_manual>>
            /\ tick' = [ticked |-> FALSE, ec0 |-> event_count]
    /\ pc' = "key"
    /\ last_poll' = NoPoll
    /\ UNCHANGED <<script, i, init_coarse, init_fine, exit_by, pass_log>>
    /\ UNCHANGED recVars
    /\ UNCHANGED lifeVars
    /\ UNCHANGED <<rasterVars, offlineVars>>

(* c) cv2.waitKey(1): no key, no trackbar event *)
KeyNoneAutobias ==
    /\ script = "autobiasing_ON"
    /\ pc = "key"
    /\ pc' = "frame"
    /\ tick' = NoTick
    /\ pass_log' = <<>>
    /\ UNCHANGED <<script, i, bias, trackbar, init_coarse, init_fine,
                   last_manual, exit_by, last_poll>>
    /\ UNCHANGED rateVars
    /\ UNCHANGED recVars
    /\ UNCHANGED lifeVars
    /\ UNCHANGED <<rasterVars, offlineVars>>

(* c) cv2.waitKey(1) returns 'q': break *)
KeyQuitAutobias ==
    /\ script = "autobiasing_ON"
    /\ pc = "key"
    /\ pc' = "finally"
    /\ exit_by' = "quit"
    /\ tick' = NoTick
    /\ UNCHANGED <<script, i, bias, trackbar, init_coarse, init_fine,
                   last_manual, pass_log, last_poll>>
    /\ UNCHANGED rateVars
    /\ UNCHANGED recVars
    /\ UNCHANGED lifeVars
    /\ UNCHANGED <<rasterVars, offlineVars>>

(* the "ON coarse" trackbar is dragged to val while waitKey runs the GUI *)
MoveOnCoarse ==
    /\ script = "autobiasing_ON"
    /\ pc = "key"
    /\ \E val \in ManualCoarseValues :
          /\ val # trackbar[On].coarse
          /\ trackbar' = [trackbar EXCEPT ![On].coarse = val]
          /\ bias' = on_coarse_trackbar(bias, On, val)
          /\ last_manual' = [last_manual EXCEPT !.coarse = val, !.moved = TRUE]
    /\ pc' = "frame"
    /\ tick' = NoTick
    /\ pass_log' = <<>>
    /\ UNCHANGED <<script, i, init_coarse, init_fine, exit_by, last_poll>>
    /\ UNCHANGED rateVars
    /\ UNCHANGED recVars
    /\ UNCHANGED lifeVars
    /\ UNCHANGED <<rasterVars, offlineVars>>

(* the "ON fine" trackbar is dragged to val while waitKey runs the GUI *)
MoveOnFine ==
    /\ script = "autobiasing_ON"
    /\ pc = "key"
    /\ \E val \in ManualFineValues :
          /\ val # trackbar[On].fine
          /\ trackbar' = [trackbar EXCEPT ![On].fine = val]
          /\ bias' = on_fine_trackbar(bias, On, val)
          /\ last_manual' = [last_manual EXCEPT !.fine = val]
    /\ pc' = "frame"
    /\ tick' = NoTick
    /\ pass_log' = <<>>
    /\ UNCHANGED <<script, i, init_coarse, init_fine, exit_by, last_poll>>
    /\ UNCHANGED rateVars
    /\ UNCHANGED recVars
    /\ UNCHANGED lifeVars
    /\ UNCHANGED <<rasterVars, offlineVars>>

(* autobiasing_ON.py:158-162: finally: for cam in cams: del cam;           *)
(* cv2.destroyAllWindows(); then main() ends                               *)
FinallyAutobias ==
    /\ script = "autobiasing_ON"
    /\ pc = "finally"
    /\ cams' = del_each(cams)
    /\ session' = Release(session, cams', "released")
    /\ pc' = "done"
    /\ last_poll' = NoPoll
    /\ UNCHANGED <<script, i, wlist, sink, exit_by, pass_log>>
    /\ UNCHANGED biasVars
    /\ UNCHANGED autoVars
    /\ UNCHANGED recVars
    /\ UNCHANGED <<rasterVars, offlineVars>>

(* main() has ended (returned, or raised to the top level) and the         *)
(* interpreter shuts down: the module-level lists may or may not be        *)
(* destroyed before the process is gone                                    *)
InterpreterExit ==
    /\ script \in LiveScripts
    /\ pc = "done"
    /\ pc' = "exited"
    /\ \E finalized \in BOOLEAN :
          /\ cams' = IF finalized THEN <<>> ELSE cams
          /\ wlist' = IF finalized THEN <<>> ELSE wlist
          /\ session' = Release(session, cams', "released")
          /\ sink' = Release(sink, wlist', "finalized")
    /\ UNCHANGED <<script, i, exit_by, pass_log, last_poll>>
    /\ UNCHANGED biasVars
    /\ UNCHANGED autoVars
    /\ UNCHANGED recVars
    /\ UNCHANGED <<rasterVars, offlineVars>>

NextAutobias ==
    \/ OpenAutobias
    \/ PollFrame
    \/ PollAutobias
    \/ RateCheck
    \/ KeyNoneAutobias
    \/ KeyQuitAutobias
    \/ MoveOnCoarse
    \/ MoveOnFine
    \/ FinallyAutobias
    \/ InterpreterExit

SpecAutobias == InitAutobias /\ [][NextAutobias]_vars

----------------------------------------------------------------------------
(* Properties of the autobias loop.  Ticked: the rate check of this pass    *)
(* found the interval elapsed; tick holds what it read before acting.      *)

Ticked == pc = "key" /\ tick.ticked
OnCoarse(c) == bias[c][On].coarse
OnFine(c) == bias[c][On].fine
ReadCoarse == tick.before[1].coarse
ReadFine == tick.before[1].fine
Wrote == \E c \in Cams : bias[c][On] # tick.before[c]
NoBiasChange == \A c \in Cams : bias[c][On] = tick.before[c]
InGuardBand(v) == MIN_COARSE <= v /\ v <= MAX_COARSE

(* C1: the HYSTERESIS_COUNT-th of consecutive low-rate checks that began    *)
(* with low_count = 0, made while the coarse read exceeds MIN_COARSE, sets *)
(* On coarse to one less than the value read on every camera and leaves    *)
(* low_count = 0 and high_count = 0; the earlier checks of that run change *)
(* no bias.                                                                *)
C1_LowTrigger ==
    /\ (Ticked /\ hist.win = HYSTERESIS_COUNT /\ ReadCoarse > MIN_COARSE)
          => /\ \A c \in Cams : OnCoarse(c) = ReadCoarse - 1
             /\ low_count = 0
             /\ high_count = 0
    /\ (Ticked /\ hist.win > 0 /\ hist.win < HYSTERESIS_COUNT) => NoBiasChange

C1_Witness ==
    /\ Ticked /\ hist.win = HYSTERESIS_COUNT /\ ReadCoarse > MIN_COARSE
    /\ OnCoarse(1) = ReadCoarse - 1
    /\ low_count = 0

(* C2: a high-rate check increments high_count and zeroes low_count; when   *)
(* the incremented count reaches HYSTERESIS_COUNT and the coarse read is   *)
(* below MAX_COARSE, On coarse becomes the value read plus one and         *)
(* high_count is 0; otherwise no bias is written.                          *)
C2_HighTrigger ==
    (Ticked /\ tick.cls = "high") =>
        /\ low_count = 0
        /\ IF tick.high0 + 1 >= HYSTERESIS_COUNT /\ ReadCoarse < MAX_COARSE
           THEN /\ \A c \in Cams : OnCoarse(c) = ReadCoarse + 1
                /\ high_count = 0
           ELSE /\ high_count = tick.high0 + 1
                /\ NoBiasChange

C2_Witness ==
    /\ Ticked /\ tick.cls = "high"
    /\ tick.high0 + 1 >= HYSTERESIS_COUNT /\ ReadCoarse < MAX_COARSE
    /\ OnCoarse(1) = ReadCoarse + 1
    /\ high_count = 0

(* C3: an in-band check zeroes both counters and writes no bias, and a      *)
(* bias is written only by a check that completes HYSTERESIS_COUNT         *)
(* consecutive checks of one class (so a shorter run cut by an in-band     *)
(* check writes nothing, and the count starts again).                      *)
C3_DeadBandResets ==
    /\ (Ticked /\ tick.cls = "band")
          => low_count = 0 /\ high_count = 0 /\ NoBiasChange
    /\ (Ticked /\ Wrote)
          => hist.cls \in {"low", "high"} /\ hist.len >= HYSTERESIS_COUNT

C3_Witness ==
    /\ Ticked /\ tick.cls = "band"
    /\ tick.hist0.cls = "low" /\ tick.low0 = HYSTERESIS_COUNT - 1
    /\ low_count = 0 /\ NoBiasChange

(* C4 as claimed: no autobias write ever stores an On coarse outside        *)
(* [MIN_COARSE, MAX_COARSE].                                               *)
C4_Original ==
    (Ticked /\ Wrote) => \A c \in Cams : InGuardBand(OnCoarse(c))

(* C4 amended: an autobias write made from a coarse inside                  *)
(* [MIN_COARSE, MAX_COARSE] stores a coarse inside it, and while the       *)
(* coarse trackbar has never been moved the coarse read by the controller  *)
(* stays inside the interval it started in.                                *)
C4_BoundClamp ==
    /\ (Ticked /\ Wrote /\ InGuardBand(ReadCoarse))
          => \A c \in Cams : InGuardBand(OnCoarse(c))
    /\ ~last_manual.moved => InGuardBand(OnCoarse(1))

C4_Witness ==
    /\ Ticked /\ tick.cls = "low" /\ tick.low0 + 1 >= HYSTERESIS_COUNT
    /\ ReadCoarse = MIN_COARSE
    /\ ~last_manual.moved
    /\ OnCoarse(1) = MIN_COARSE

(* C5 as claimed: an autobias write leaves every camera's On fine as it was *)
C5_Original ==
    (Ticked /\ Wrote) => \A c \in Cams : OnFine(c) = tick.before[c].fine

(* C5 amended: an autobias write stores, on every camera, the new coarse    *)
(* together with the On fine read from the first camera; the first         *)
(* camera's fine is unchanged.                                             *)
C5_WriteAllCams ==
    (Ticked /\ Wrote) =>
        /\ \A c \in Cams : bias[c][On] = BiasValue(OnCoarse(1), ReadFine)
        /\ OnCoarse(1) # ReadCoarse

C5_Witness ==
    /\ Ticked /\ Wrote
    /\ tick.before[2].fine # ReadFine
    /\ OnFine(2) = ReadFine

(* C6: an autobias write moves the coarse read by the controller by exactly *)
(* one, and at least HYSTERESIS_COUNT - 1 rate checks without a write lie  *)
(* between two autobias writes.                                            *)
C6_OneStepSpaced ==
    (Ticked /\ Wrote) =>
        /\ OnCoarse(1) \in {ReadCoarse - 1, ReadCoarse + 1}
        /\ tick.hist0.since >= HYSTERESIS_COUNT - 1

C6_Witness ==
    /\ Ticked /\ Wrote
    /\ tick.hist0.since = HYSTERESIS_COUNT - 1
    /\ OnCoarse(1) \in {ReadCoarse - 1, ReadCoarse + 1}

(* C7: a rate check made before RATE_CHECK_INTERVAL has elapsed changes     *)
(* neither the accumulator, last_check, the counters nor any bias; the     *)
(* accumulator is reset, last_check moved or a counter changed only by a   *)
(* check with the interval elapsed, which zeroes the accumulator and sets  *)
(* last_check to now.                                                      *)
C7_IntervalGate ==
    [][ /\ (pc = "rate" /\ now' - last_check < RATE_CHECK_INTERVAL)
            => UNCHANGED <<event_count, last_check, low_count, high_count, bias>>
        /\ (\/ event_count' < event_count
            \/ last_check' # last_check
            \/ low_count' # low_count
            \/ high_count' # high_count)
            => /\ pc = "rate"
               /\ now' - last_check >= RATE_CHECK_INTERVAL
               /\ event_count' = 0
               /\ last_check' = now' ]_vars

C7_Witness ==
    /\ pc = "key" /\ ~tick.ticked
    /\ tick.ec0 > 0 /\ event_count = tick.ec0
    /\ low_count > 0

(* C8: a value dragged on an On trackbar is held by every camera when the   *)
(* callback returns, and an autobias write that follows a manual coarse    *)
(* move stores that manual coarse plus or minus one.                       *)
C8_ManualPrecedence ==
    /\ last_manual.coarse # -1 => \A c \in Cams : OnCoarse(c) = last_manual.coarse
    /\ last_manual.fine # -1 => \A c \in Cams : OnFine(c) = last_manual.fine
    /\ (Ticked /\ Wrote /\ tick.manual0.coarse # -1)
          => OnCoarse(1) \in {tick.manual0.coarse - 1, tick.manual0.coarse + 1}

C8_Witness ==
    /\ Ticked /\ Wrote /\ tick.manual0.coarse # -1
    /\ OnCoarse(1) \in {tick.manual0.coarse - 1, tick.manual0.coarse + 1}
    /\ ReadCoarse # init_coarse

(* C26: in every state of the loop the position of the "ON coarse"       *)
(* trackbar is the On coarse held by the first camera, whatever manual     *)
(* moves and autobias steps came before.                                   *)
C26_ControlSync ==
    trackbar[On].coarse = OnCoarse(1)

C26_Witness ==
    /\ Ticked /\ Wrote
    /\ last_manual.moved
    /\ trackbar[On].coarse = OnCoarse(1)
    /\ trackbar[On].coarse # init_coarse

(* C27: low_count and high_count are never both non-zero. *)
C27_CountersExclusive ==
    low_count = 0 \/ high_count = 0

C27_Witness ==
    /\ Ticked /\ tick.cls = "low"
    /\ tick.high0 > 0
    /\ low_count = 1 /\ high_count = 0

C30_NeverAway ==
    Ticked =>
        /\ ReadCoarse <= MIN_COARSE => OnCoarse(1) >= ReadCoarse
        /\ ReadCoarse >= MAX_COARSE => OnCoarse(1) <= ReadCoarse
        /\ ReadCoarse < MIN_COARSE => OnCoarse(1) \in {ReadCoarse, ReadCoarse + 1}
        /\ ReadCoarse > MAX_COARSE => OnCoarse(1) \in {ReadCoarse, ReadCoarse - 1}
        /\ Wrote => \A c \in Cams : OnCoarse(c) >= 0 /\ OnCoarse(c) <= TrackbarMaxAutobias

C30_Witness ==
    /\ Ticked /\ Wrote
    /\ tick.manual0.coarse > MAX_COARSE
    /\ ReadCoarse = tick.manual0.coarse
    /\ OnCoarse(1) = ReadCoarse - 1

----------------------------------------------------------------------------
(* autobiasing_ON.py run without end: the rate check of lines 119-152 with *)
(* the clock taken relative to last_check (the code only ever uses         *)
(* now - last_check) and the two counters saturated at MaxCount (the code  *)
(* only ever compares them with HYSTERESIS_COUNT), so that the loop can    *)
(* run for ever in a finite state space.  The coarse value is followed     *)
(* within MaxDrift steps of either guard rail.                             *)

MaxCount == 4
MaxDrift == 1

Saturated(c) == Min(c, MaxCount)

NearRail(coarse) ==
    \/ coarse <= MIN_COARSE + MaxDrift
    \/ coarse >= MAX_COARSE - MaxDrift

RateCheckSteady ==
    /\ script = "autobiasing_ON"
    /\ pc = "rate"
    /\ \E d \in 0..MaxStep :
          LET t == now + d IN
          IF IntervalElapsed(t, last_check)
          THEN LET r == rate_per_cam(event_count, t, last_check)
                   cf == getBias(bias, On)
                   dec == Decide(r, cf.coarse, low_count, high_count)
               IN  /\ dec.write => NearRail(dec.new_coarse)
                   /\ bias' = IF dec.write
                              THEN set_on_threshold(bias, dec.new_coarse, cf.fine)
                              ELSE bias
                   /\ trackbar' = IF dec.write
                                  THEN setTrackbarPos(trackbar, dec.new_coarse)
                                  ELSE trackbar
                   /\ low_count' = Saturated(dec.low)
                   /\ high_count' = Saturated(dec.high)
                   /\ event_count' = 0
                   /\ last_check' = 0
                   /\ now' = 0
                   /\ hist' = Remember(hist, RateClass(r), low_count, bias' # bias)
                   /\ tick' = [ticked |-> TRUE, cls |-> RateClass(r),
                               low0 |-> low_count, high0 |-> high_count,
                               before |-> [c \in Cams |-> bias[c][On]],
                               hist0 |-> hist, manual0 |-> last_manual]
                   /\ last_manual' = IF bias' # bias
                                     THEN [last_manual EXCEPT !.coarse = -1]
                                     ELSE last_manual
          ELSE /\ UNCHANGED <<bias, trackbar, low_count, high_count, event_count,
                              last_check, now, hist, last_manual>>
               /\ tick' = [ticked |-> FALSE, ec0 |-> event_count]
    /\ pc' = "key"
    /\ last_poll' = NoPoll
    /\ UNCHANGED <<script, i, init_coarse, init_fine, exit_by, pass_log>>
    /\ UNCHANGED recVars
    /\ UNCHANGED lifeVars
    /\ UNCHANGED <<rasterVars, offlineVars>>

(* a rate check that found the interval elapsed *)
RateTick == RateCheckSteady /\ tick'.ticked

NextConverge ==
    \/ OpenAutobias
    \/ PollFrame
    \/ PollAutobias
    \/ RateCheckSteady
    \/ KeyNoneAutobias
    \/ KeyQuitAutobias
    \/ MoveOnCoarse
    \/ MoveOnFine
    \/ FinallyAutobias
    \/ InterpreterExit

(* the interpreter keeps executing the loop, and time.time() advances, so  *)
(* a check that finds the interval elapsed cannot be postponed for ever    *)
SpecConverge ==
    /\ InitAutobias
    /\ [][NextConverge]_vars
    /\ WF_vars(NextConverge)
    /\ SF_vars(RateTick)

RateTicksKeepOccurring == []<>Ticked

(* a trackbar is only dragged while waitKey runs *)
NoManualChange == pc = "key" => trackbar' = trackbar

CoarseFixed == \A c \in Cams : OnCoarse(c)' = OnCoarse(c)

(* C29: if rate ticks keep occurring, from some point on every one of      *)
(* them is below LOW_RATE_THRESHOLD and no trackbar is moved, then the On  *)
(* coarse value is eventually <= MIN_COARSE for good and is eventually     *)
(* never changed again; symmetrically, under ticks above                   *)
(* HIGH_RATE_THRESHOLD it is eventually >= MAX_COARSE and fixed.           *)
C29_Convergence ==
    /\ (/\ RateTicksKeepOccurring
        /\ <>[](Ticked => tick.cls = "low")
        /\ <>[][NoManualChange]_vars)
       => (/\ <>[](OnCoarse(1) <= MIN_COARSE)
           /\ <>[][CoarseFixed]_vars)
    /\ (/\ RateTicksKeepOccurring
        /\ <>[](Ticked => tick.cls = "high")
        /\ <>[][NoManualChange]_vars)
       => (/\ <>[](OnCoarse(1) >= MAX_COARSE)
           /\ <>[][CoarseFixed]_vars)

(* the check after the On coarse value has been held at the rail *)
C29_Witness ==
    /\ Ticked /\ tick.cls = "low"
    /\ ~last_manual.moved
    /\ ReadCoarse = MIN_COARSE
    /\ OnCoarse(1) = MIN_COARSE
    /\ tick.low0 >= HYSTERESIS_COUNT

----------------------------------------------------------------------------
(* six_bias_record.py and six_bias_noise_record.py                         *)

(* Values the operator drags the six-bias trackbars to: coarse bars range  *)
(* over 0..TrackbarCoarseMaxRecord, fine bars over 0..TrackbarFineMaxRecord *)
RecordChannels == {On, "Diff"}
RecordCoarseValues == {7, TrackbarCoarseMaxRecord}
RecordFineValues == {v \in {30} : v <= TrackbarFineMaxRecord}

(* Coarse values the bias register can hold (3 bits) *)
RegisterCoarseMax == 7

(* A polled EventStore: its poll number and its size *)
Batch(id, n) == [id |-> id, n |-> n]

(* filt.accept(evs); evs = filt.generateEvents(): some of the events remain *)
FilterOutcomes(n) == {m \in BatchSizes : m <= n}

Ids(seq) == [k \in 1..Len(seq) |-> seq[k].id]

InitRecord ==
    /\ script \in {"six_bias_record", "six_bias_noise_record"}
    /\ bias = [c \in Cams |-> [ch \in KEY_BIASES |-> DefaultBias]]
    /\ trackbar = [ch \in KEY_BIASES |-> DefaultBias]
    /\ init_coarse = DefaultBias.coarse
    /\ init_fine = DefaultBias.fine
    /\ InitLoop
    /\ InitNoCall

IsRecordScript == script \in {"six_bias_record", "six_bias_noise_record"}

(* six_bias_record.py:86-103, six_bias_noise_record.py:94-121: open        *)
(* SERIALS[i] and its MonoCameraWriter; an exception of either constructor *)
(* leaves main() before its try statement                                  *)
OpenRecord ==
    /\ IsRecordScript
    /\ pc = "open"
    /\ \E outcome \in {"ok", "camera_error", "writer_error"} :
          /\ session' = IF outcome = "camera_error" THEN session
                        ELSE [session EXCEPT ![i] = "open"]
          /\ cams' = IF outcome = "camera_error" THEN cams
                     ELSE Append(cams, i)
          /\ sink' = IF outcome = "ok" THEN [sink EXCEPT ![i] = "open"]
                     ELSE sink
          /\ wlist' = IF outcome = "ok" THEN Append(wlist, i) ELSE wlist
          /\ IF outcome = "ok"
             THEN /\ IF i < NumCams THEN i' = i + 1 /\ pc' = "open"
                                    ELSE i' = 1 /\ pc' = "frame"
                  /\ UNCHANGED exit_by
             ELSE /\ pc' = "done"
                  /\ exit_by' = "open_failure"
                  /\ UNCHANGED i
    /\ UNCHANGED <<script, pass_log, last_poll>>
    /\ UNCHANGED biasVars
    /\ UNCHANGED autoVars
    /\ UNCHANGED recVars
    /\ UNCHANGED <<rasterVars, offlineVars>>

NextCam ==
    IF i < NumCams THEN i' = i + 1 /\ pc' = "frame"
                   ELSE i' = 1 /\ pc' = "key"

(* the IndexError of make_event_image leaves the while loop *)
Raise ==
    /\ pc' = "finally"
    /\ exit_by' = "exception"
    /\ UNCHANGED i

(* writers[i].writeEvents(...) either appends the batch or raises (an I/O  *)
(* error of the file); nothing catches the exception                       *)
WriteOutcomes == {"written", "io_error"}

WriteFails ==
    /\ pc' = "finally"
    /\ exit_by' = "write_failure"
    /\ UNCHANGED <<i, writers>>

(* history of the pass: what became of the non-empty batch each camera    *)
(* delivered in it, "written", "unwritten", or "none" if it delivered none *)
PassFate(t) == IF "fate" \in DOMAIN t THEN t.fate ELSE [c \in Cams |-> "none"]

Note(t, c, f) == [ticked |-> FALSE, fate |-> [PassFate(t) EXCEPT ![c] = f]]

(* six_bias_record.py:124-130: one camera's event poll; a non-empty batch  *)
(* is rasterized, displayed and, if recording, written                     *)
PollRecord ==
    /\ script = "six_bias_record"
    /\ pc = "poll"
    /\ \E ev_store \in BatchOptions :
          IF has_events(ev_store)
          THEN /\ next_id <= MaxBatches
               /\ next_id' = next_id + 1
               /\ polled' = [polled EXCEPT ![i] =
                               Append(@, [id |-> next_id, started |-> start_cmd])]
               /\ IF HasOob(ev_store)
                  THEN /\ Raise
                       /\ last_poll' = [cam |-> i, what |-> "events",
                                        ev |-> ev_store, shown |-> FALSE]
                       /\ tick' = Note(tick, i, "unwritten")
                       /\ UNCHANGED writers
                  ELSE /\ last_poll' = [cam |-> i, what |-> "events",
                                        ev |-> ev_store, shown |-> TRUE]
                       /\ IF recording
                          THEN \E outcome \in WriteOutcomes :
                                  IF outcome = "written"
                                  THEN /\ writers' = [writers EXCEPT ![i] =
                                             Append(@, Batch(next_id, size(ev_store)))]
                                       /\ tick' = Note(tick, i, "written")
                                       /\ NextCam
                                       /\ UNCHANGED exit_by
                                  ELSE /\ WriteFails
                                       /\ tick' = Note(tick, i, "unwritten")
                          ELSE /\ tick' = Note(tick, i, "unwritten")
                               /\ NextCam
                               /\ UNCHANGED <<writers, exit_by>>
          ELSE /\ last_poll' = [cam |-> i, what |-> "events",
                                ev |-> ev_store, shown |-> FALSE]
               /\ NextCam
               /\ UNCHANGED <<writers, polled, next_id, exit_by, tick>>
    /\ pass_log' = Append(pass_log, <<"events", i>>)
    /\ UNCHANGED <<script, recording, start_cmd>>
    /\ UNCHANGED biasVars
    /\ UNCHANGED rateVars
    /\ UNCHANGED lifeVars
    /\ UNCHANGED <<rasterVars, offlineVars>>

(* six_bias_noise_record.py:142-155: one camera's event poll; a non-empty  *)
(* batch is filtered, written, rasterized and displayed; the filter keeps  *)
(* m of its events, an out-of-range one among them if m > 0                *)
PollNoiseRecord ==
    /\ script = "six_bias_noise_record"
    /\ pc = "poll"
    /\ \E evs \in BatchOptions :
          IF has_events(evs)
          THEN /\ next_id <= MaxBatches
               /\ next_id' = next_id + 1
               /\ polled' = [polled EXCEPT ![i] =
                                Append(@, [id |-> next_id, started |-> start_cmd])]
               /\ \E m \in FilterOutcomes(size(evs)), outcome \in WriteOutcomes :
                     IF outcome = "written"
                     THEN /\ writers' = [writers EXCEPT ![i] =
                                            Append(@, Batch(next_id, m))]
                          /\ IF HasOob(evs) /\ m > 0
                             THEN /\ Raise
                                  /\ last_poll' = [cam |-> i, what |-> "events",
                                                   ev |-> evs, kept |-> m,
                                                   shown |-> FALSE]
                             ELSE /\ last_poll' = [cam |-> i, what |-> "events",
                                                   ev |-> evs, kept |-> m,
                                                   shown |-> TRUE]
                                  /\ NextCam
                                  /\ UNCHANGED exit_by
                     ELSE /\ WriteFails
                          /\ last_poll' = [cam |-> i, what |-> "events",
                                           ev |-> evs, kept |-> m,
                                           shown |-> FALSE]
          ELSE /\ last_poll' = [cam |-> i, what |-> "events",
                                ev |-> evs, shown |-> FALSE]
               /\ NextCam
               /\ UNCHANGED <<writers, polled, next_id, exit_by>>
    /\ pass_log' = Append(pass_log, <<"events", i>>)
    /\ UNCHANGED <<script, recording, start_cmd>>
    /\ UNCHANGED biasVars
    /\ UNCHANGED autoVars
    /\ UNCHANGED lifeVars
    /\ UNCHANGED <<rasterVars, offlineVars>>

(* cv2.waitKey(1): neither 'r' nor 'q', no trackbar event *)
KeyNoneRecord ==
    /\ IsRecordScript
    /\ pc = "key"
    /\ pc' = "frame"
    /\ pass_log' = <<>>
    /\ last_poll' = NoPoll
    /\ UNCHANGED <<script, i, exit_by>>
    /\ UNCHANGED recVars
    /\ UNCHANGED biasVars
    /\ tick' = NoTick
    /\ UNCHANGED rateVars
    /\ UNCHANGED lifeVars
    /\ UNCHANGED <<rasterVars, offlineVars>>

(* six_bias_record.py:133-135: key == ord('r') *)
KeyStartRecord ==
    /\ script = "six_bias_record"
    /\ pc = "key"
    /\ recording' = TRUE
    /\ start_cmd' = TRUE
    /\ pc' = "frame"
    /\ pass_log' = <<>>
    /\ last_poll' = NoPoll
    /\ UNCHANGED <<script, i, writers, polled, next_id, exit_by>>
    /\ UNCHANGED biasVars
    /\ tick' = NoTick
    /\ UNCHANGED rateVars
    /\ UNCHANGED lifeVars
    /\ UNCHANGED <<rasterVars, offlineVars>>

(* key == ord('q'): break *)
KeyQuitRecord ==
    /\ IsRecordScript
    /\ pc = "key"
    /\ pc' = "finally"
    /\ exit_by' = "quit"
    /\ last_poll' = NoPoll
    /\ UNCHANGED <<script, i, pass_log>>
    /\ UNCHANGED recVars
    /\ UNCHANGED biasVars
    /\ UNCHANGED autoVars
    /\ UNCHANGED lifeVars
    /\ UNCHANGED <<rasterVars, offlineVars>>

(* a "<name> coarse" trackbar is dragged to val: make_coarse_cb(bias_cf)(val) *)
MoveCoarseRecord ==
    /\ IsRecordScript
    /\ pc = "key"
    /\ \E ch \in RecordChannels, val \in RecordCoarseValues :
          /\ val # trackbar[ch].coarse
          /\ trackbar' = [trackbar EXCEPT ![ch].coarse = val]
          /\ bias' = on_coarse_trackbar(bias, ch, val)
    /\ pc' = "frame"
    /\ pass_log' = <<>>
    /\ last_poll' = NoPoll
    /\ UNCHANGED <<script, i, init_coarse, init_fine, last_manual, exit_by>>
    /\ UNCHANGED recVars
    /\ tick' = NoTick
    /\ UNCHANGED rateVars
    /\ UNCHANGED lifeVars
    /\ UNCHANGED <<rasterVars, offlineVars>>

(* a "<name> fine" trackbar is dragged to val: make_fine_cb(bias_cf)(val) *)
MoveFineRecord ==
    /\ IsRecordScript
    /\ pc = "key"
    /\ \E ch \in RecordChannels, val \in RecordFineValues :
          /\ val # trackbar[ch].fine
          /\ trackbar' = [trackbar EXCEPT ![ch].fine = val]
          /\ bias' = on_fine_trackbar(bias, ch, val)
    /\ pc' = "frame"
    /\ pass_log' = <<>>
    /\ last_poll' = NoPoll
    /\ UNCHANGED <<script, i, init_coarse, init_fine, last_manual, exit_by>>
    /\ UNCHANGED recVars
    /\ tick' = NoTick
    /\ UNCHANGED rateVars
    /\ UNCHANGED lifeVars
    /\ UNCHANGED <<rasterVars, offlineVars>>

(* finally: for w in writers: del w; for cam in cams: del cam;             *)
(* cv2.destroyAllWindows(); then main() ends                               *)
FinallyRecord ==
    /\ IsRecordScript
    /\ pc = "finally"
    /\ wlist' = del_each(wlist)
    /\ cams' = del_each(cams)
    /\ sink' = Release(sink, wlist', "finalized")
    /\ session' = Release(session, cams', "released")
    /\ pc' = "done"
    /\ last_poll' = NoPoll
    /\ UNCHANGED <<script, i, exit_by, pass_log>>
    /\ UNCHANGED biasVars
    /\ UNCHANGED autoVars
    /\ UNCHANGED recVars
    /\ UNCHANGED <<rasterVars, offlineVars>>

NextRecord ==
    \/ OpenRecord
    \/ PollFrame
    \/ PollRecord
    \/ PollNoiseRecord
    \/ KeyNoneRecord
    \/ KeyStartRecord
    \/ KeyQuitRecord
    \/ MoveCoarseRecord
    \/ MoveFineRecord
    \/ FinallyRecord
    \/ InterpreterExit

SpecRecord == InitRecord /\ [][NextRecord]_vars

----------------------------------------------------------------------------
(* Properties of the recording scripts                                     *)

(* C9 as claimed: dragging a coarse trackbar to a value above the register *)
(* width is rejected: every camera keeps the pair it held for that channel. *)
C9_Original ==
    [][ \A ch \in KEY_BIASES :
          (/\ pc = "key"
           /\ trackbar'[ch].coarse # trackbar[ch].coarse
           /\ trackbar'[ch].coarse > RegisterCoarseMax)
          => \A c \in Cams : bias'[c][ch] = bias[c][ch] ]_vars

(* C10 as claimed: in both recording scripts the batches appended to a     *)
(* camera's file are exactly the non-empty batches polled from it after a  *)
(* start-recording key, in poll order.                                     *)
Started(b) == b.started

C10_Original ==
    \A c \in Cams : Ids(writers[c]) = Ids(SelectSeq(polled[c], Started))

----------------------------------------------------------------------------
(* The three live scripts together                                         *)

InitLive == InitAutobias \/ InitRecord

NextLive == NextAutobias \/ NextRecord

SpecLive == InitLive /\ [][NextLive]_vars

(* one pass of "for i, cam in enumerate(cams)": frame, then events, of     *)
(* every camera in list order                                              *)
FullPass ==
    [k \in 1..(2 * NumCams) |->
        <<IF k % 2 = 1 THEN "frame" ELSE "events", (k + 1) \div 2>>]

(* C11 as claimed: however main() ended (quit, an exception in the loop,   *)
(* a failure while opening a camera or its writer), once the process has   *)
(* exited no camera session is left open and no writer's file is left      *)
(* unfinalized.                                                            *)
C11_Original ==
    pc = "exited" => \A c \in Cams : session[c] # "open" /\ sink[c] # "open"

(* the latest event poll returned events that were not carried through to  *)
(* the display                                                             *)
PartlyProcessed ==
    /\ last_poll.what = "events"
    /\ last_poll.ev # NoBatch
    /\ size(last_poll.ev) > 0
    /\ ~last_poll.shown

(* C12 as claimed: waitKey is reached only after every camera of the pass  *)
(* has been polled; the finally block is never entered while the pass is   *)
(* incomplete or a polled batch is partly processed; after a quit nothing  *)
(* more is polled.                                                         *)
C12_Original ==
    /\ pc = "key" => pass_log = FullPass
    /\ pc = "finally" => pass_log = FullPass /\ ~PartlyProcessed
    /\ exit_by = "quit" => pass_log = FullPass /\ pc \in {"finally", "done", "exited"}

(* C21 as claimed: a camera that cannot be opened is dropped and the loop  *)
(* runs with the camera(s) already open.                                   *)
C21_Original ==
    (exit_by = "open_failure" /\ cams # <<>>) => pc \in {"frame", "poll", "rate", "key"}

(* C22 as claimed: a failed writeEvents never makes main() leave its loop. *)
C22_Original ==
    exit_by = "write_failure" => pc \in {"frame", "poll", "key"}

(* C25 as claimed: in the recording scripts, whenever recording is active  *)
(* a poll appends a batch to the camera's file exactly when it displays    *)
(* that batch, and the batch appended is the batch displayed.              *)
Recording == script = "six_bias_noise_record" \/ recording

Displayed(poll) == IF script = "six_bias_noise_record" THEN poll.kept
                                                       ELSE size(poll.ev)

C25_Original ==
    [][ (IsRecordScript /\ pc = "poll" /\ Recording)
          => /\ (writers'[i] # writers[i]) <=> last_poll'.shown
             /\ (writers'[i] # writers[i])
                   => /\ Len(writers'[i]) = Len(writers[i]) + 1
                      /\ writers'[i][Len(writers'[i])].n = Displayed(last_poll')
      ]_vars

(* C18 as claimed: a polled batch holding an out-of-range event is still   *)
(* rasterized and displayed (without that event) and the loop goes on.     *)
C18_Original ==
    (last_poll.what = "events" /\ HasOob(last_poll.ev))
        => (last_poll.shown /\ exit_by = "none" /\ pc \in {"frame", "rate", "key"})

(* C20: the polls of a pass are made in the order frame, events of camera  *)
(* 1, frame, events of camera 2, each once, and the pass is complete when  *)
(* the loop body ends; a frame poll returning None, and an event poll      *)
(* returning None or an empty EventStore, change neither event_count nor   *)
(* the hysteresis counters nor the files nor the display, raise nothing,   *)
(* and the loop moves on to the next poll.                                 *)
C20_PollSemantics ==
    [][ /\ Len(pass_log') <= Len(FullPass)
        /\ \A k \in 1..Len(pass_log') : pass_log'[k] = FullPass[k]
        /\ pc' \in {"rate", "key"} => pass_log' = FullPass
        /\ (pc = "frame" /\ pc' # "frame" /\ ~last_poll'.got)
             => /\ UNCHANGED <<event_count, low_count, high_count, writers>>
                /\ ~last_poll'.shown
                /\ exit_by' = "none"
                /\ pc' = "poll" /\ i' = i
        /\ (pc = "poll" /\ pc' # "poll"
              /\ (last_poll'.ev = NoBatch \/ size(last_poll'.ev) = 0))
             => /\ UNCHANGED <<event_count, low_count, high_count, writers>>
                /\ ~last_poll'.shown
                /\ exit_by' = "none"
                /\ IF i < NumCams THEN i' = i + 1 /\ pc' = "frame"
                                  ELSE i' = 1 /\ pc' \in {"rate", "key"}
      ]_vars

C20_Witness ==
    /\ script = "autobiasing_ON"
    /\ pc = "frame"
    /\ i = 2
    /\ last_poll.what = "events"
    /\ last_poll.ev = <<0>>
    /\ event_count > 0
    /\ low_count > 0

(* C31: every step that changes a bias changes one channel only; after it  *)
(* all cameras hold the same (coarse, fine) pair on that channel, the pair *)
(* keeps one field of what camera 0 held before, and every other channel   *)
(* of every camera is as before.                                           *)
C31_LockStep ==
    [][ bias' # bias =>
          \E ch \in KEY_BIASES :
             /\ \A c \in Cams : bias'[c][ch] = bias'[1][ch]
             /\ \/ bias'[1][ch].fine = bias[1][ch].fine
                \/ bias'[1][ch].coarse = bias[1][ch].coarse
             /\ \A c \in Cams : \A other \in KEY_BIASES \ {ch} :
                   bias'[c][other] = bias[c][other]
      ]_vars

(* C32 as claimed, for six_bias_record.py: recording is on exactly when    *)
(* the start key has been pressed (False at the start, never back to       *)
(* False), and the non-empty batches the cameras delivered in one pass     *)
(* are all written or all unwritten.                                       *)
C32_Original ==
    script = "six_bias_record" =>
        /\ recording <=> start_cmd
        /\ ~(\E c, d \in Cams : /\ PassFate(tick)[c] = "written"
                                /\ PassFate(tick)[d] = "unwritten")

(* an autobias write that brought a camera holding another pair into line *)
C31_Witness ==
    /\ Ticked
    /\ tick.before[2] # tick.before[1]
    /\ bias[1][On] # tick.before[1]
    /\ bias[2][On] = bias[1][On]
    /\ bias[1][On].fine = tick.before[1].fine

----------------------------------------------------------------------------
(* The rasterizers as functions of one batch                               *)

InitRaster ==
    /\ script = "make_event_image"
    /\ bias = [c \in Cams |-> [ch \in KEY_BIASES |-> DefaultBias]]
    /\ trackbar = [ch \in KEY_BIASES |-> DefaultBias]
    /\ init_coarse = DefaultBias.coarse
    /\ init_fine = DefaultBias.fine
    /\ InitLoop
    /\ InitNoCall

loopVars == <<script, pc, i, exit_by, pass_log, last_poll>>

(* the events argument: one more event in the EventStore that will be      *)
(* handed to make_event_image                                              *)
AddEvent ==
    /\ script = "make_event_image"
    /\ ~r_out.fresh
    /\ Len(r_batch) < MaxLen
    /\ \E ev \in EventValues : r_batch' = Append(r_batch, ev)
    /\ UNCHANGED <<r_out, r_prev>>
    /\ UNCHANGED <<loopVars, biasVars, autoVars, recVars, lifeVars, offlineVars>>

Rasterize(kind, result) ==
    /\ script = "make_event_image"
    /\ ~r_out.fresh
    /\ r_out' = Call(kind, result)
    /\ r_prev' = Dirty(r_out)
    /\ UNCHANGED r_batch
    /\ UNCHANGED <<loopVars, biasVars, autoVars, recVars, lifeVars, offlineVars>>

(* autobiasing_ON.py:51, six_important_bias.py:51 *)
RasterizeVectorized ==
    Rasterize("vectorized", make_event_image_vectorized(r_batch, resolution))

(* live_dual_display.py:14, backup.py:40 *)
RasterizePerEvent ==
    Rasterize("per_event", make_event_image_per_event(r_batch, resolution))

(* play_aedat.py:18, six_bias_record.py:58, six_bias_noise_record.py:67 *)
RasterizeDual ==
    Rasterize("dual", make_event_image_dual(r_batch, resolution))

(* the caller has used the image; the next poll's batch starts empty *)
NextBatch ==
    /\ script = "make_event_image"
    /\ r_out.fresh
    /\ r_batch' = <<>>
    /\ r_out' = [r_out EXCEPT !.fresh = FALSE]
    /\ r_prev' = {}
    /\ UNCHANGED <<loopVars, biasVars, autoVars, recVars, lifeVars, offlineVars>>

NextRaster ==
    \/ AddEvent
    \/ RasterizeVectorized
    \/ RasterizePerEvent
    \/ RasterizeDual
    \/ NextBatch

SpecRaster == InitRaster /\ [][NextRaster]_vars

----------------------------------------------------------------------------
(* Properties of the rasterizers                                           *)

Mono == {"vectorized", "per_event"}

(* the events of the batch that lie at column x of row y *)
EventsAt(c) == {k \in 1..Len(r_batch) : r_batch[k].y = c[1] /\ r_batch[k].x = c[2]}

LatestAt(c) == CHOOSE k \in EventsAt(c) : \A j \in EventsAt(c) : j <= k

Inside(ev) == ev.x < resolution.w /\ ev.y < resolution.h

AllInside == \A k \in 1..Len(r_batch) : Inside(r_batch[k])

Triple(b, g, r) == [ch \in Channels |-> IF ch = 0 THEN b ELSE IF ch = 1 THEN g ELSE r]

(* C13: for a batch inside the resolution both grayscale rasterizers       *)
(* return an image that is 255 where the last event of the pixel is ON,    *)
(* 127 where it is OFF and 0 where the batch has no event.                 *)
C13_MonoMapping ==
    (r_out.fresh /\ r_out.kind \in Mono /\ AllInside)
        => /\ ~r_out.raised
           /\ DOMAIN r_out.img = Cells(resolution)
           /\ \A c \in Cells(resolution) :
                 r_out.img[c] = IF EventsAt(c) = {} THEN 0
                                ELSE IF r_batch[LatestAt(c)].polarity THEN 255
                                ELSE 127

C13_Witness ==
    /\ r_out.fresh
    /\ r_out.kind = "vectorized"
    /\ ~r_out.raised
    /\ \E c, d \in Cells(resolution) : r_out.img[c] = 255 /\ r_out.img[d] = 127

(* C14: at a pixel addressed by several events of the batch the grayscale  *)
(* value is the one of the event that comes last, whatever the polarities  *)
(* of the earlier ones, in the vectorized and in the per-event rasterizer. *)
C14_LastWriteWins ==
    (r_out.fresh /\ r_out.kind \in Mono /\ ~r_out.raised)
        => \A c \in Cells(resolution) :
              \A k \in EventsAt(c) :
                 (Cardinality(EventsAt(c)) > 1 /\ \A j \in EventsAt(c) : j <= k)
                    => r_out.img[c] = IF r_batch[k].polarity THEN 255 ELSE 127

C14_Witness ==
    /\ r_out.fresh
    /\ r_out.kind = "vectorized"
    /\ ~r_out.raised
    /\ Len(r_batch) = 2
    /\ r_batch[1].polarity /\ ~r_batch[2].polarity
    /\ r_batch[1].x = r_batch[2].x /\ r_batch[1].y = r_batch[2].y
    /\ r_out.img[<<r_batch[2].y, r_batch[2].x>>] = 127

(* C15: for a batch inside the resolution the colour rasterizer returns,   *)
(* per pixel, channel 1 at 255 iff the pixel has an ON event, channel 2 at *)
(* 255 iff it has an OFF event, and channel 0 at 0.                        *)
C15_DualMapping ==
    (r_out.fresh /\ r_out.kind = "dual" /\ AllInside)
        => /\ ~r_out.raised
           /\ \A c \in Cells(resolution) :
                 LET on == \E k \in EventsAt(c) : r_batch[k].polarity
                     off == \E k \in EventsAt(c) : ~r_batch[k].polarity
                 IN  /\ r_out.img[c] = Triple(0, IF on THEN 255 ELSE 0,
                                                 IF off THEN 255 ELSE 0)
                     /\ (on /\ ~off) => r_out.img[c] = Triple(0, 255, 0)
                     /\ (off /\ ~on) => r_out.img[c] = Triple(0, 0, 255)
                     /\ (~on /\ ~off) => r_out.img[c] = Triple(0, 0, 0)

C15_Witness ==
    /\ r_out.fresh
    /\ r_out.kind = "dual"
    /\ ~r_out.raised
    /\ \E c \in Cells(resolution) : r_out.img[c] = Triple(0, 255, 255)

Background(kind) == IF kind = "dual" THEN Triple(0, 0, 0) ELSE 0

(* C16: a returned image shows its own batch only: a pixel the batch has   *)
(* no event at is background, whatever the call before had drawn there,    *)
(* and a pixel the batch has an event at is not.                           *)
C16_NoHistory ==
    (r_out.fresh /\ ~r_out.raised)
        => \A c \in Cells(resolution) :
              (EventsAt(c) = {}) <=> (r_out.img[c] = Background(r_out.kind))

C16_Witness ==
    /\ r_out.fresh
    /\ ~r_out.raised
    /\ r_out.kind = "vectorized"
    /\ \E c \in r_prev : EventsAt(c) = {} /\ r_out.img[c] = 0
    /\ \E c \in Cells(resolution) : EventsAt(c) # {}

(* C17: a batch with an event at x >= width or y >= height makes every     *)
(* rasterizer raise IndexError, and a returned image has exactly the cells *)
(* of the height x width array.                                            *)
C17_Bounds ==
    r_out.fresh
        => /\ (~AllInside) => r_out.raised
           /\ (~r_out.raised) => DOMAIN r_out.img = Cells(resolution)

C17_Witness ==
    /\ r_out.fresh
    /\ r_out.kind = "per_event"
    /\ r_out.raised
    /\ Len(r_batch) = 2
    /\ Inside(r_batch[1])
    /\ r_batch[2].x = resolution.w

(* C19: an empty batch makes the colour rasterizer (and the grayscale ones) *)
(* return an image of the sensor's resolution with every pixel background. *)
C19_EmptyBatch ==
    (r_out.fresh /\ r_batch = <<>>)
        => /\ ~r_out.raised
           /\ DOMAIN r_out.img = Cells(resolution)
           /\ \A c \in Cells(resolution) : r_out.img[c] = Background(r_out.kind)

C19_Witness ==
    /\ r_out.fresh
    /\ r_out.kind = "dual"
    /\ r_batch = <<>>
    /\ r_prev # {}
    /\ \A c \in Cells(resolution) : r_out.img[c] = Triple(0, 0, 0)

(* C33: for a batch inside the resolution, repeated pixels and mixed       *)
(* polarities included, the image the vectorized rasterizer returns is the *)
(* image the per-event loop returns for the same batch, and conversely.    *)
C33_Equivalence ==
    (r_out.fresh /\ AllInside)
        => /\ r_out.kind = "vectorized"
                => /\ ~r_out.raised
                   /\ r_out.img = make_event_image_per_event(r_batch, resolution).img
           /\ r_out.kind = "per_event"
                => /\ ~r_out.raised
                   /\ r_out.img = make_event_image_vectorized(r_batch, resolution).img

C33_Witness ==
    /\ r_out.fresh
    /\ r_out.kind = "vectorized"
    /\ ~r_out.raised
    /\ AllInside
    /\ \E c \in Cells(resolution) :
          \E j, k \in EventsAt(c) : r_batch[j].polarity # r_batch[k].polarity

----------------------------------------------------------------------------
(* six_important_hot_pix.py and oyle_deniyom.py: the display loop with      *)
(* noise filters                                                           *)

FilterScripts == {"six_important_hot_pix", "oyle_deniyom"}

InitFilter ==
    /\ script \in FilterScripts
    /\ bias = [c \in Cams |-> [ch \in KEY_BIASES |-> DefaultBias]]
    /\ trackbar = [ch \in KEY_BIASES |-> DefaultBias]
    /\ init_coarse = DefaultBias.coarse
    /\ init_fine = DefaultBias.fine
    /\ InitLoop
    /\ InitNoCall

(* oyle_deniyom.py:19: the module-level statement                          *)
(*   filter = dv.noise.BackgroundActivityNoiseFilter(resolution, ...)      *)
(* runs before the try/except import of lines 20-23 and before main(); the *)
(* name resolution is bound nowhere in the module, so the statement raises *)
(* (NameError, or AttributeError if dv.noise has no such class) and the    *)
(* script ends before main() is called                                     *)
ModuleLevelOyle ==
    /\ script = "oyle_deniyom"
    /\ pc = "open"
    /\ pc' = "done"
    /\ exit_by' = "import_error"
    /\ UNCHANGED <<script, i, pass_log, last_poll>>
    /\ UNCHANGED biasVars
    /\ UNCHANGED autoVars
    /\ UNCHANGED recVars
    /\ UNCHANGED lifeVars
    /\ UNCHANGED <<rasterVars, offlineVars>>

(* six_important_hot_pix.py:83-99: open SERIALS[i]; after the last camera  *)
(* one HotPixelFilter and one TemporalMedianFilter are built per camera    *)
OpenHotPix ==
    /\ script = "six_important_hot_pix"
    /\ pc = "open"
    /\ \E ok \in BOOLEAN :
          IF ok
          THEN /\ session' = [session EXCEPT ![i] = "open"]
               /\ cams' = Append(cams, i)
               /\ IF i < NumCams THEN i' = i + 1 /\ pc' = "open"
                                 ELSE i' = 1 /\ pc' = "frame"
               /\ UNCHANGED exit_by
          ELSE /\ pc' = "done"
               /\ exit_by' = "open_failure"
               /\ UNCHANGED <<session, cams, i>>
    /\ UNCHANGED <<script, wlist, sink, pass_log, last_poll>>
    /\ UNCHANGED biasVars
    /\ UNCHANGED autoVars
    /\ UNCHANGED recVars
    /\ UNCHANGED <<rasterVars, offlineVars>>

(* hot_filters[k].process / median_filters[k].process: which instance was  *)
(* called with how many events and how many it returned                    *)
FilterCall(name, k, n, m) == [filter |-> name, inst |-> k, in |-> n, out |-> m]

(* ev_store = hot_filters[i].process(ev_store)                             *)
(* ev_store = median_filters[i].process(ev_store)                          *)
FilterChain(k, n, m1, m2) ==
    <<FilterCall("hot", k, n, m1), FilterCall("median", k, m1, m2)>>

(* six_important_hot_pix.py:123-129: one camera's event poll; a non-empty  *)
(* batch goes through the camera's two filters, then to make_event_image   *)
(* and imshow                                                              *)
PollHotPix ==
    /\ script = "six_important_hot_pix"
    /\ pc = "poll"
    /\ \E ev_store \in BatchOptions :
          IF has_events(ev_store)
          THEN \E m1 \in FilterOutcomes(size(ev_store)) :
               \E m2 \in FilterOutcomes(m1) :
                  IF HasOob(ev_store) /\ m2 > 0
                  THEN /\ Raise
                       /\ last_poll' = [cam |-> i, what |-> "events",
                                        ev |-> ev_store,
                                        chain |-> FilterChain(i, size(ev_store), m1, m2),
                                        kept |-> m2, shown |-> FALSE]
                  ELSE /\ last_poll' = [cam |-> i, what |-> "events",
                                        ev |-> ev_store,
                                        chain |-> FilterChain(i, size(ev_store), m1, m2),
                                        kept |-> m2, shown |-> TRUE]
                       /\ NextCam
                       /\ UNCHANGED exit_by
          ELSE /\ last_poll' = [cam |-> i, what |-> "events",
                                ev |-> ev_store, chain |-> <<>>,
                                shown |-> FALSE]
               /\ NextCam
               /\ UNCHANGED exit_by
    /\ pass_log' = Append(pass_log, <<"events", i>>)
    /\ UNCHANGED script
    /\ UNCHANGED biasVars
    /\ UNCHANGED autoVars
    /\ UNCHANGED recVars
    /\ UNCHANGED lifeVars
    /\ UNCHANGED <<rasterVars, offlineVars>>

(* cv2.waitKey(1): not 'q' *)
KeyNoneHotPix ==
    /\ script = "six_important_hot_pix"
    /\ pc = "key"
    /\ pc' = "frame"
    /\ pass_log' = <<>>
    /\ last_poll' = NoPoll
    /\ UNCHANGED <<script, i, exit_by>>
    /\ UNCHANGED recVars
    /\ UNCHANGED biasVars
    /\ UNCHANGED autoVars
    /\ UNCHANGED lifeVars
    /\ UNCHANGED <<rasterVars, offlineVars>>

(* if cv2.waitKey(1) & 0xFF == ord('q'): break *)
KeyQuitHotPix ==
    /\ script = "six_important_hot_pix"
    /\ pc = "key"
    /\ pc' = "finally"
    /\ exit_by' = "quit"
    /\ last_poll' = NoPoll
    /\ UNCHANGED <<script, i, pass_log>>
    /\ UNCHANGED recVars
    /\ UNCHANGED biasVars
    /\ UNCHANGED autoVars
    /\ UNCHANGED lifeVars
    /\ UNCHANGED <<rasterVars, offlineVars>>

(* a "<name> coarse" trackbar is dragged to val: make_coarse_cb(bias_cf)(val) *)
MoveCoarseHotPix ==
    /\ script = "six_important_hot_pix"
    /\ pc = "key"
    /\ \E ch \in RecordChannels, val \in RecordCoarseValues :
          /\ val # trackbar[ch].coarse
          /\ trackbar' = [trackbar EXCEPT ![ch].coarse = val]
          /\ bias' = on_coarse_trackbar(bias, ch, val)
    /\ pc' = "frame"
    /\ pass_log' = <<>>
    /\ last_poll' = NoPoll
    /\ UNCHANGED <<script, i, init_coarse, init_fine, last_manual, exit_by>>
    /\ UNCHANGED recVars
    /\ UNCHANGED autoVars
    /\ UNCHANGED lifeVars
    /\ UNCHANGED <<rasterVars, offlineVars>>

(* a "<name> fine" trackbar is dragged to val: make_fine_cb(bias_cf)(val) *)
MoveFineHotPix ==
    /\ script = "six_important_hot_pix"
    /\ pc = "key"
    /\ \E ch \in RecordChannels, val \in RecordFineValues :
          /\ val # trackbar[ch].fine
          /\ trackbar' = [trackbar EXCEPT ![ch].fine = val]
          /\ bias' = on_fine_trackbar(bias, ch, val)
    /\ pc' = "frame"
    /\ pass_log' = <<>>
    /\ last_poll' = NoPoll
    /\ UNCHANGED <<script, i, init_coarse, init_fine, last_manual, exit_by>>
    /\ UNCHANGED recVars
    /\ UNCHANGED autoVars
    /\ UNCHANGED lifeVars
    /\ UNCHANGED <<rasterVars, offlineVars>>

(* finally: for cam in cams: del cam; cv2.destroyAllWindows() *)
FinallyHotPix ==
    /\ script = "six_important_hot_pix"
    /\ pc = "finally"
    /\ cams' = del_each(cams)
    /\ session' = Release(session, cams', "released")
    /\ pc' = "done"
    /\ last_poll' = NoPoll
    /\ UNCHANGED <<script, i, wlist, sink, exit_by, pass_log>>
    /\ UNCHANGED biasVars
    /\ UNCHANGED autoVars
    /\ UNCHANGED recVars
    /\ UNCHANGED <<rasterVars, offlineVars>>

NextFilter ==
    \/ ModuleLevelOyle
    \/ OpenHotPix
    \/ PollFrame
    \/ PollHotPix
    \/ KeyNoneHotPix
    \/ KeyQuitHotPix
    \/ MoveCoarseHotPix
    \/ MoveFineHotPix
    \/ FinallyHotPix
    \/ InterpreterExit

SpecFilter == InitFilter /\ [][NextFilter]_vars

(* C23 as claimed: every non-empty polled batch of camera i goes through   *)
(* hot-pixel filter i and then temporal-median filter i, each getting what *)
(* the one before returned; and a script whose filter is not available     *)
(* still runs its loop, passing the batches through unfiltered.            *)
C23_Original ==
    /\ (script = "six_important_hot_pix" /\ last_poll.what = "events"
          /\ last_poll.ev # NoBatch /\ size(last_poll.ev) > 0)
       => /\ Len(last_poll.chain) = 2
          /\ last_poll.chain[1].filter = "hot"
          /\ last_poll.chain[2].filter = "median"
          /\ \A k \in 1..2 : last_poll.chain[k].inst = last_poll.cam
          /\ last_poll.chain[1].in = size(last_poll.ev)
          /\ last_poll.chain[2].in = last_poll.chain[1].out
          /\ last_poll.kept = last_poll.chain[2].out
    /\ script = "oyle_deniyom" => exit_by # "import_error"

----------------------------------------------------------------------------
(* RECORDS/deneme.py: load_and_filter                                      *)

MaxRows == 4

Timestamps == {100, 101, 105, 200}
Thresholds == {0, 5, 150}

(* the lines of the file: the header on line 0, data row k on line k + 1   *)
FileLines(rows) ==
    [k \in 1..(Len(rows) + 1) |->
        IF k = 1 THEN [line |-> 0, header |-> TRUE, timestamp |-> 0]
        ELSE [line |-> k - 1, header |-> FALSE, timestamp |-> rows[k - 1]]]

(* pd.read_csv(csv_path, skiprows=skiprows, nrows=nrows, header=None, ...): *)
(* the first skiprows lines are dropped and at most nrows lines are parsed *)
read_csv(lines, skiprows, nrows) ==
    LET first == skiprows + 1
        last == Min(Len(lines), skiprows + nrows)
    IN  IF first > last THEN <<>> ELSE SubSeq(lines, first, last)

RECURSIVE Keep(_, _, _)
(* df[df['dt'] <= threshold_us], rows in the order of df *)
Keep(df, t0, threshold_us) ==
    IF df = <<>> THEN <<>>
    ELSE LET dt == Head(df).timestamp - t0
             rest == Keep(Tail(df), t0, threshold_us)
         IN  IF dt <= threshold_us
             THEN <<[row |-> Head(df).line - 1,
                     timestamp |-> Head(df).timestamp, dt |-> dt]>> \o rest
             ELSE rest

(* df['timestamp'].iloc[0] of an empty frame raises IndexError *)
load_and_filter(rows, start_idx, threshold_us, max_rows) ==
    LET df == read_csv(FileLines(rows), start_idx + 1, max_rows)
    IN  IF df = <<>>
        THEN [raised |-> TRUE, events |-> <<>>]
        ELSE [raised |-> FALSE, events |-> Keep(df, df[1].timestamp, threshold_us)]

InitOffline ==
    /\ script = "deneme"
    /\ bias = [c \in Cams |-> [ch \in KEY_BIASES |-> DefaultBias]]
    /\ trackbar = [ch \in KEY_BIASES |-> DefaultBias]
    /\ init_coarse = DefaultBias.coarse
    /\ init_fine = DefaultBias.fine
    /\ InitLoop
    /\ InitNoCall

(* the file at csv_path: one more data row *)
AppendRow ==
    /\ script = "deneme"
    /\ ~loaded.called
    /\ Len(csv) < MaxRows
    /\ \E t \in Timestamps : csv' = Append(csv, t)
    /\ UNCHANGED loaded
    /\ UNCHANGED <<loopVars, biasVars, autoVars, recVars, lifeVars, rasterVars>>

(* events = load_and_filter(csv_path, start_idx, threshold_us, max_rows) *)
Load ==
    /\ script = "deneme"
    /\ ~loaded.called
    /\ \E start_idx \in 0..MaxRows, max_rows \in 0..MaxRows,
          threshold_us \in Thresholds :
          loaded' = [called |-> TRUE, start_idx |-> start_idx,
                     threshold_us |-> threshold_us, max_rows |-> max_rows,
                     out |-> load_and_filter(csv, start_idx, threshold_us, max_rows)]
    /\ UNCHANGED csv
    /\ UNCHANGED <<loopVars, biasVars, autoVars, recVars, lifeVars, rasterVars>>

NextOffline ==
    \/ AppendRow
    \/ Load

SpecOffline == InitOffline /\ [][NextOffline]_vars

(* the rows the claim names: index in [start_idx, start_idx + max_rows),   *)
(* timestamp minus the timestamp of row start_idx at most the threshold    *)
InSelection(k) ==
    /\ k >= loaded.start_idx
    /\ k < loaded.start_idx + loaded.max_rows
    /\ k < Len(csv)

(* C24 as claimed: for every file, start index, max_rows and threshold the *)
(* call returns, in file order, exactly the rows of the range whose        *)
(* timestamp is within the threshold of that of row start_idx.             *)
C24_Original ==
    loaded.called =>
        /\ ~loaded.out.raised
        /\ \A k \in 1..Len(loaded.out.events) :
              /\ InSelection(loaded.out.events[k].row)
              /\ loaded.out.events[k].timestamp = csv[loaded.out.events[k].row + 1]
              /\ k > 1 => loaded.out.events[k - 1].row < loaded.out.events[k].row
        /\ \A r \in 0..(Len(csv) - 1) :
              (InSelection(r) /\ csv[r + 1] - csv[loaded.start_idx + 1] <= loaded.threshold_us)
                  <=> (\E k \in 1..Len(loaded.out.events) : loaded.out.events[k].row = r)

----------------------------------------------------------------------------
(* play_aedat.py: playback of two recordings                               *)

InitPlayback ==
    /\ script = "play_aedat"
    /\ bias = [c \in Cams |-> [ch \in KEY_BIASES |-> DefaultBias]]
    /\ trackbar = [ch \in KEY_BIASES |-> DefaultBias]
    /\ init_coarse = DefaultBias.coarse
    /\ init_fine = DefaultBias.fine
    /\ InitLoop
    /\ InitNoCall

(* play_aedat.py:47-51: reader = dv.io.MonoCameraRecording(fname); an      *)
(* exception of the constructor leaves main() before its try statement     *)
OpenPlayback ==
    /\ script = "play_aedat"
    /\ pc = "open"
    /\ \E ok \in BOOLEAN :
          IF ok
          THEN /\ session' = [session EXCEPT ![i] = "open"]
               /\ cams' = Append(cams, i)
               /\ IF i < NumCams THEN i' = i + 1 /\ pc' = "open"
                                 ELSE i' = 1 /\ pc' = "while"
               /\ UNCHANGED exit_by
          ELSE /\ pc' = "done"
               /\ exit_by' = "open_failure"
               /\ UNCHANGED <<session, cams, i>>
    /\ UNCHANGED <<script, wlist, sink, pass_log, last_poll>>
    /\ UNCHANGED biasVars
    /\ UNCHANGED autoVars
    /\ UNCHANGED recVars
    /\ UNCHANGED <<rasterVars, offlineVars>>

(* all(r.isRunning() for r in readers) *)
all_isRunning(st, list) == \A k \in 1..Len(list) : st[list[k]] = "open"

(* any(r.isRunning() for r in readers) *)
any_isRunning(st, list) == \E k \in 1..Len(list) : st[list[k]] = "open"

(* play_aedat.py:55: while any(r.isRunning() for r in readers) *)
WhilePlayback ==
    /\ script = "play_aedat"
    /\ pc = "while"
    /\ IF any_isRunning(session, cams)
       THEN /\ pc' = "poll"
            /\ UNCHANGED exit_by
       ELSE /\ pc' = "finally"
            /\ exit_by' = "eof"
    /\ pass_log' = <<>>
    /\ last_poll' = NoPoll
    /\ UNCHANGED <<script, i>>
    /\ UNCHANGED biasVars
    /\ UNCHANGED autoVars
    /\ UNCHANGED recVars
    /\ UNCHANGED lifeVars
    /\ UNCHANGED <<rasterVars, offlineVars>>

(* for i, reader in enumerate(readers): next reader, or the key read *)
NextReader ==
    IF i < NumCams THEN i' = i + 1 /\ pc' = "poll"
                   ELSE i' = 1 /\ pc' = "key"

(* what reader.getNextEventBatch() can return: anything while the reader   *)
(* is running, None once it is at the end of its file                      *)
ReaderBatches(st) == IF st = "open" THEN BatchOptions ELSE {NoBatch}

(* the reader after the read: still running, or at the end of its file *)
ReaderAfter(st) == IF st = "open" THEN {"open", "ended"} ELSE {st}

(* play_aedat.py:57-60: one reader's poll; a non-empty batch is rasterized *)
(* and displayed, None or an empty batch is skipped                        *)
PollPlayback ==
    /\ script = "play_aedat"
    /\ pc = "poll"
    /\ \E ev_store \in ReaderBatches(session[i]), after \in ReaderAfter(session[i]) :
          /\ session' = [session EXCEPT ![i] = after]
          /\ IF has_events(ev_store)
             THEN IF HasOob(ev_store)
                  THEN /\ Raise
                       /\ last_poll' = [cam |-> i, what |-> "events",
                                        ev |-> ev_store, shown |-> FALSE]
                  ELSE /\ last_poll' = [cam |-> i, what |-> "events",
                                        ev |-> ev_store, shown |-> TRUE]
                       /\ NextReader
                       /\ UNCHANGED exit_by
             ELSE /\ last_poll' = [cam |-> i, what |-> "events",
                                   ev |-> ev_store, shown |-> FALSE]
                  /\ NextReader
                  /\ UNCHANGED exit_by
    /\ pass_log' = Append(pass_log, <<"events", i>>)
    /\ UNCHANGED <<script, cams, wlist, sink>>
    /\ UNCHANGED biasVars
    /\ UNCHANGED autoVars
    /\ UNCHANGED recVars
    /\ UNCHANGED <<rasterVars, offlineVars>>

(* cv2.waitKey(1): not 'q' *)
KeyNonePlayback ==
    /\ script = "play_aedat"
    /\ pc = "key"
    /\ pc' = "while"
    /\ UNCHANGED <<script, i, exit_by, pass_log, last_poll>>
    /\ UNCHANGED biasVars
    /\ UNCHANGED autoVars
    /\ UNCHANGED recVars
    /\ UNCHANGED lifeVars
    /\ UNCHANGED <<rasterVars, offlineVars>>

(* if cv2.waitKey(1) & 0xFF == ord('q'): break *)
KeyQuitPlayback ==
    /\ script = "play_aedat"
    /\ pc = "key"
    /\ pc' = "finally"
    /\ exit_by' = "quit"
    /\ UNCHANGED <<script, i, pass_log, last_poll>>
    /\ UNCHANGED biasVars
    /\ UNCHANGED autoVars
    /\ UNCHANGED recVars
    /\ UNCHANGED lifeVars
    /\ UNCHANGED <<rasterVars, offlineVars>>

(* finally: for r in readers: del r; cv2.destroyAllWindows() *)
FinallyPlayback ==
    /\ script = "play_aedat"
    /\ pc = "finally"
    /\ cams' = del_each(cams)
    /\ session' = Release(session, cams', "released")
    /\ pc' = "done"
    /\ UNCHANGED <<script, i, wlist, sink, exit_by, pass_log, last_poll>>
    /\ UNCHANGED biasVars
    /\ UNCHANGED autoVars
    /\ UNCHANGED recVars
    /\ UNCHANGED <<rasterVars, offlineVars>>

NextPlayback ==
    \/ OpenPlayback
    \/ WhilePlayback
    \/ PollPlayback
    \/ KeyNonePlayback
    \/ KeyQuitPlayback
    \/ FinallyPlayback
    \/ InterpreterExit

(* the interpreter keeps executing main() until it has ended *)
SpecPlayback ==
    /\ InitPlayback
    /\ [][NextPlayback]_vars
    /\ WF_vars(NextPlayback)

Running(c) == session[c] = "open"

AllReadersPolled == [c \in Cams |-> <<"events", c>>]

(* every reader has been opened and none is running any more *)
AllStopped == Len(cams) = NumCams /\ \A c \in Cams : session[c] = "ended"

(* the finally block has run *)
CleanedUp == pc \in {"done", "exited"} /\ exit_by # "open_failure"

(* C34: the while test ends the loop exactly when no reader is running,    *)
(* and a 'q' read at the end of a pass ends it; a pass that reaches its    *)
(* key read has polled every reader, the finished ones too, and a poll of  *)
(* a finished reader returns None, raises nothing and displays nothing;    *)
(* if all readers are eventually at the end of their files, main() leaves  *)
(* the loop and its finally block runs.                                    *)
C34_Termination ==
    /\ [][ /\ pc = "while" =>
                IF \E c \in Cams : Running(c)
                THEN pc' = "poll" /\ i' = 1 /\ exit_by' = "none"
                ELSE pc' = "finally" /\ exit_by' = "eof"
           /\ exit_by' = "quit" /\ exit_by = "none" => pc = "key" /\ pc' = "finally"
           /\ pc' = "key" /\ pc # "key" => pass_log' = AllReadersPolled
           /\ pc = "poll" /\ ~Running(i) =>
                /\ last_poll'.cam = i
                /\ last_poll'.ev = NoBatch
                /\ ~last_poll'.shown
                /\ exit_by' = "none"
                /\ pc' \in {"poll", "key"}
         ]_vars
    /\ <>AllStopped => <>CleanedUp

(* the loop has ended at the while test after both files ran out *)
C34_Witness ==
    /\ pc = "done"
    /\ exit_by = "eof"
    /\ Len(cams) = NumCams
    /\ \A c \in Cams : session[c] = "ended"

====
